---- MODULE Spec2Model ----
(***************************************************************************)
(* Model of libsystemconf (systemconf.c): the native half of               *)
(* java.security.SystemConfigurator.  JNI_OnLoad acquires                  *)
(* SECMOD_GetSystemFIPSEnabled (linked at build time under SYSCONF_NSS,    *)
(* otherwise through dlopen/dlsym), getSystemFIPSEnabled answers from it   *)
(* or from /proc/sys/crypto/fips_enabled, JNI_OnUnload tears down.         *)
(*                                                                         *)
(* Every call the C code makes on the loader, on stdio or on the JNI       *)
(* environment is recorded as an event [op, arg]; the answers of those     *)
(* calls are the inputs of the handlers.                                   *)
(***************************************************************************)
EXTENDS Integers, Sequences, FiniteSets, TLC

VARIABLES
    SYSCONF_NSS,            \* build variant: TRUE when NSS is linked at build time
    phase,                  \* lifecycle the host drives: load, calls, unload
    getSystemFIPSEnabled,   \* static function pointer (line 44)
    debugPrintlnMethodID,   \* static jmethodID (line 45)
    debugObj,               \* static jobject (line 46)
    nss_handle,             \* static void* (line 77), unused under SYSCONF_NSS
    onLoadRet,              \* what JNI_OnLoad returned
    trace,                  \* events of JNI_OnLoad followed by those of JNI_OnUnload
    prev,                   \* the query before the last one (<<>> or one record)
    last,                   \* the last query (<<>> or one record)
    thr,                    \* the query each thread is inside, statement by statement
    fips_enabled_of         \* the local fips_enabled (line 194) of each activation

vars == <<SYSCONF_NSS, phase, getSystemFIPSEnabled, debugPrintlnMethodID,
          debugObj, nss_handle, onLoadRet, trace, prev, last, thr, fips_enabled_of>>

----------------------------------------------------------------------------
(* Program constants *)

MSG_MAX_SIZE == 256
EOF == -1
CHAR_ONE == 49

(* Lengths of the constant parts of the snprintf formats *)
LEN_DLOPEN_FMT == 18
LEN_DLSYM_FMT == 17
LEN_DLCLOSE_FMT == 20
LEN_RETURNED_FMT == 61
LEN_READ_FMT == 43

----------------------------------------------------------------------------
(* Bounds and input domains *)

\* longest dlerror() text the loader is taken to produce
MaxDetailLen == 300

\* 238 puts "loadNSS: dlopen: %s\n" at 256 bytes and "loadNSS: dlsym: %s\n"
\* at 255
DetailLens == {12, 238, MaxDetailLen}

\* values SECMOD_GetSystemFIPSEnabled may return (int)
SecmodValues == {0, 1, CHAR_ONE}

\* what fgetc may return for the first character: EOF or an unsigned char
FgetcValues == {EOF, 0, 1, 48, CHAR_ONE}

\* outcome of NewStringUTF inside dbgPrint: a string, or NULL with an
\* OutOfMemoryError pending
Deliveries == {"ok", "oom"}

DeliveryPlans == [1..2 -> Deliveries]

NoFaultPlan == [i \in 1..2 |-> "ok"]

----------------------------------------------------------------------------
(* Events *)

Ev(o, a) == [op |-> o, arg |-> a]

Ops(s, o) == SelectSeq(s, LAMBDA e : e.op = o)

HasOp(s, o) == \E i \in 1..Len(s) : s[i].op = o

HasEv(s, o, a) == \E i \in 1..Len(s) : s[i] = Ev(o, a)

\* the globals as one record, handed to the operators that model functions
Globals == [getSystemFIPSEnabled |-> getSystemFIPSEnabled,
            debugPrintlnMethodID |-> debugPrintlnMethodID,
            debugObj |-> debugObj,
            nss_handle |-> nss_handle]

----------------------------------------------------------------------------
(* The host: the virtual machine that loads the library, calls the native  *)
(* method from its threads and unloads the library                         *)

Threads == {"t1", "t2"}

\* a thread outside the library
Idle == [pc |-> "idle",
         in |-> [secmod |-> 0, fopen |-> "NULL", fgetc |-> EOF, dlv |-> NoFaultPlan],
         ev |-> <<>>, ret |-> FALSE]

\* a native method is called only between JNI_OnLoad and JNI_OnUnload
HostMayCall == phase = "Initialized"

\* JNI_OnUnload runs once, when no thread is inside the library
HostMayUnload ==
    /\ phase = "Initialized"
    /\ \A t \in Threads : thr[t].pc = "idle"

----------------------------------------------------------------------------
(* dbgPrint, throwIOException, handle_msg *)

dbgPrint(g, msg, delivery) ==
    IF g.debugObj # "NULL"
    THEN IF delivery = "oom"
         THEN <<Ev("throw", "OutOfMemoryError")>>
         ELSE <<Ev("println", msg)>>
    ELSE <<>>

throwIOException(msg) == <<Ev("throw", msg)>>

\* the call of handle_msg itself: the message snprintf formatted and the
\* length snprintf returned
Formatted(msg, msg_bytes) == [op |-> "handle_msg", arg |-> msg, bytes |-> msg_bytes]

\* mutant: a message that fills the buffer passes the test
handle_msg_inclusive(g, msg, msg_bytes, delivery) ==
    <<Formatted(msg, msg_bytes)>>
    \o IF msg_bytes > 0 /\ msg_bytes <= MSG_MAX_SIZE
       THEN dbgPrint(g, msg, delivery)
       ELSE dbgPrint(g, "systemconf: cannot render message", delivery)

handle_msg(g, msg, msg_bytes, delivery) ==
    <<Formatted(msg, msg_bytes)>>
    \o IF msg_bytes > 0 /\ msg_bytes < MSG_MAX_SIZE
       THEN dbgPrint(g, msg, delivery)
       ELSE dbgPrint(g, "systemconf: cannot render message", delivery)

\* number of hex digits "%x" prints for an int
RECURSIVE HexDigits(_)
HexDigits(u) == IF u < 16 THEN 1 ELSE 1 + HexDigits(u \div 16)

\* a negative int prints as its 32-bit two's complement: 8 digits
HexLen(v) == IF v < 0 THEN 8 ELSE HexDigits(v)

----------------------------------------------------------------------------
(* loadNSS and closeNSS (only when NSS is not linked at build time) *)

\* mutant: the pointer dlsym could not resolve is left looking resolved
loadNSS_keepsPointer(g, in) ==
    IF in.dlopen = "NULL"
    THEN [g   |-> [g EXCEPT !.nss_handle = "NULL"],
          ret |-> FALSE,
          ev  |-> <<Ev("dlopen", "NULL")>>
                  \o handle_msg(g, "loadNSS: dlopen", LEN_DLOPEN_FMT + in.errLen,
                                in.dlv[1])]
    ELSE [g   |-> [g EXCEPT !.nss_handle = "HANDLE",
                            !.getSystemFIPSEnabled = "SECMOD"],
          ret |-> in.dlsym # "NULL",
          ev  |-> <<Ev("dlopen", "HANDLE"), Ev("dlsym", in.dlsym)>>
                  \o IF in.dlsym = "NULL"
                     THEN handle_msg(g, "loadNSS: dlsym", LEN_DLSYM_FMT + in.errLen,
                                     in.dlv[1])
                     ELSE <<>>]

\* mutant: the handle is forgotten when the symbol is not found
loadNSS_dropsHandle(g, in) ==
    IF in.dlopen = "NULL"
    THEN [g   |-> [g EXCEPT !.nss_handle = "NULL"],
          ret |-> FALSE,
          ev  |-> <<Ev("dlopen", "NULL")>>
                  \o handle_msg(g, "loadNSS: dlopen", LEN_DLOPEN_FMT + in.errLen,
                                in.dlv[1])]
    ELSE IF in.dlsym = "NULL"
    THEN [g   |-> [g EXCEPT !.nss_handle = "NULL",
                            !.getSystemFIPSEnabled = "NULL"],
          ret |-> FALSE,
          ev  |-> <<Ev("dlopen", "HANDLE"), Ev("dlsym", "NULL")>>
                  \o handle_msg(g, "loadNSS: dlsym", LEN_DLSYM_FMT + in.errLen,
                                in.dlv[1])]
    ELSE [g   |-> [g EXCEPT !.nss_handle = "HANDLE",
                            !.getSystemFIPSEnabled = "SECMOD"],
          ret |-> TRUE,
          ev  |-> <<Ev("dlopen", "HANDLE"), Ev("dlsym", "SECMOD")>>]

\* mutant: a symbol that is not found is not diagnosed
loadNSS_silentDlsym(g, in) ==
    IF in.dlopen = "NULL"
    THEN [g   |-> [g EXCEPT !.nss_handle = "NULL"],
          ret |-> FALSE,
          ev  |-> <<Ev("dlopen", "NULL")>>
                  \o handle_msg(g, "loadNSS: dlopen", LEN_DLOPEN_FMT + in.errLen,
                                in.dlv[1])]
    ELSE IF in.dlsym = "NULL"
    THEN [g   |-> [g EXCEPT !.nss_handle = "HANDLE",
                            !.getSystemFIPSEnabled = "NULL"],
          ret |-> FALSE,
          ev  |-> <<Ev("dlopen", "HANDLE"), Ev("dlsym", "NULL")>>]
    ELSE [g   |-> [g EXCEPT !.nss_handle = "HANDLE",
                            !.getSystemFIPSEnabled = "SECMOD"],
          ret |-> TRUE,
          ev  |-> <<Ev("dlopen", "HANDLE"), Ev("dlsym", "SECMOD")>>]

loadNSS(g, in) ==
    IF in.dlopen = "NULL"
    THEN [g   |-> [g EXCEPT !.nss_handle = "NULL"],
          ret |-> FALSE,
          ev  |-> <<Ev("dlopen", "NULL")>>
                  \o handle_msg(g, "loadNSS: dlopen", LEN_DLOPEN_FMT + in.errLen,
                                in.dlv[1])]
    ELSE IF in.dlsym = "NULL"
    THEN [g   |-> [g EXCEPT !.nss_handle = "HANDLE",
                            !.getSystemFIPSEnabled = "NULL"],
          ret |-> FALSE,
          ev  |-> <<Ev("dlopen", "HANDLE"), Ev("dlsym", "NULL")>>
                  \o handle_msg(g, "loadNSS: dlsym", LEN_DLSYM_FMT + in.errLen,
                                in.dlv[1])]
    ELSE [g   |-> [g EXCEPT !.nss_handle = "HANDLE",
                            !.getSystemFIPSEnabled = "SECMOD"],
          ret |-> TRUE,
          ev  |-> <<Ev("dlopen", "HANDLE"), Ev("dlsym", "SECMOD")>>]

\* dlclose: 0 or an error for an open handle; for a null handle the loader
\* either reports an error or faults
DlcloseAnswers(handle) ==
    IF handle = "NULL" THEN {"nonzero", "SIGSEGV"} ELSE {"0", "nonzero"}

\* mutant: the handle is closed a second time
closeNSS_twice(g, in) ==
    <<Ev("dlclose", g.nss_handle), Ev("dlclose_ret", in.dlclose),
      Ev("dlclose", g.nss_handle), Ev("dlclose_ret", in.dlclose)>>
    \o IF in.dlclose = "nonzero"
       THEN handle_msg(g, "closeNSS: dlclose", LEN_DLCLOSE_FMT + in.errLen,
                       in.dlv[1])
       ELSE <<>>

closeNSS(g, in) ==
    <<Ev("dlclose", g.nss_handle), Ev("dlclose_ret", in.dlclose)>>
    \o IF in.dlclose = "nonzero"
       THEN handle_msg(g, "closeNSS: dlclose", LEN_DLCLOSE_FMT + in.errLen,
                       in.dlv[1])
       ELSE <<>>

----------------------------------------------------------------------------
(* JNI_OnLoad *)

OnLoadInputs ==
    [GetEnv : {"JNI_OK", "JNI_EVERSION"},
     sysConfCls : {"NULL", "CLASS"},
     sdebugFld : {"NULL", "FIELD"},
     sdebug : {"NULL", "LOCAL"},
     debugCls : {"NULL", "CLASS"},
     println : {"NULL", "MID"},
     dlopen : {"NULL", "HANDLE"},
     dlsym : {"NULL", "SECMOD"},
     errLen : DetailLens,
     dlv : DeliveryPlans]

\* mutant: the entry point linked at build time is recorded before the
\* checks that can fail
Failed_linkedFirst(g, code, events) ==
    [g |-> [g EXCEPT !.getSystemFIPSEnabled = "SECMOD"], ret |-> code, ev |-> events]

Failed(g, code, events) == [g |-> g, ret |-> code, ev |-> events]

JNI_OnLoad(static, g, in) ==
    IF in.GetEnv # "JNI_OK" THEN Failed(g, "JNI_EVERSION", <<>>)
    ELSE IF in.sysConfCls = "NULL"
    THEN Failed(g, "JNI_ERR", <<Ev("printf", "SystemConfigurator class not found")>>)
    ELSE IF in.sdebugFld = "NULL"
    THEN Failed(g, "JNI_ERR", <<Ev("printf", "sdebug field not found")>>)
    ELSE LET g1 == [g EXCEPT !.debugObj = in.sdebug] IN
    IF g1.debugObj # "NULL" /\ in.debugCls = "NULL"
    THEN Failed(g1, "JNI_ERR", <<Ev("printf", "Debug class not found")>>)
    ELSE IF g1.debugObj # "NULL" /\ in.println = "NULL"
    THEN Failed([g1 EXCEPT !.debugPrintlnMethodID = "NULL"], "JNI_ERR",
                <<Ev("printf", "Debug::println(String) method not found")>>)
    ELSE LET g2 == IF g1.debugObj # "NULL"
                   THEN [g1 EXCEPT !.debugPrintlnMethodID = "MID",
                                   !.debugObj = "GLOBAL"]
                   ELSE g1
             e2 == IF g1.debugObj # "NULL"
                   THEN <<Ev("NewGlobalRef", "GLOBAL")>> ELSE <<>>
         IN
    IF static
    THEN [g |-> [g2 EXCEPT !.getSystemFIPSEnabled = "SECMOD"],
          ret |-> "VERSION", ev |-> e2]
    ELSE LET l == loadNSS(g2, in) IN
         [g |-> l.g, ret |-> "VERSION",
          ev |-> e2 \o l.ev
                 \o <<Ev("loadNSS", IF l.ret THEN "JNI_TRUE" ELSE "JNI_FALSE")>>
                 \o IF l.ret = FALSE
                    THEN dbgPrint(l.g, "libsystemconf: Failed to load NSS library.",
                                  in.dlv[2])
                    ELSE <<>>]

OnLoad ==
    /\ phase = "Uninitialized"
    /\ \E in \in OnLoadInputs :
         LET r == JNI_OnLoad(SYSCONF_NSS, Globals, in) IN
         /\ getSystemFIPSEnabled' = r.g.getSystemFIPSEnabled
         /\ debugPrintlnMethodID' = r.g.debugPrintlnMethodID
         /\ debugObj' = r.g.debugObj
         /\ nss_handle' = r.g.nss_handle
         /\ onLoadRet' = r.ret
         /\ trace' = trace \o r.ev
         /\ phase' = IF r.ret = "VERSION" THEN "Initialized" ELSE "LoadFailed"
    /\ UNCHANGED <<SYSCONF_NSS, prev, last, thr, fips_enabled_of>>

----------------------------------------------------------------------------
(* Java_java_security_SystemConfigurator_getSystemFIPSEnabled *)

\* the answers of the calls a query makes: the value the entry point returns,
\* whether fopen yields a stream, what fgetc yields, and the NewStringUTF
\* outcomes of its two dbgPrint calls
QueryInputs ==
    [secmod : SecmodValues,
     fopen : {"NULL", "FILE"},
     fgetc : FgetcValues,
     dlv : DeliveryPlans]

Returned(value, events) == [ret |-> value, ev |-> events]

\* mutant: the file is read even when the entry point was resolved
entryPointIgnored(g) == FALSE

\* line 198: the test that selects the source
entryPointPresent(g) == g.getSystemFIPSEnabled # "NULL"

\* mutant: any non-zero int counts as enabled
nativeAnswer_nonzero(fips_enabled) == fips_enabled # 0

\* line 204: the entry point's int as a jboolean
nativeAnswer(fips_enabled) == fips_enabled = 1

\* line 222: the character read as a jboolean
fileAnswer(fips_enabled) == fips_enabled = CHAR_ONE

\* mutant: a file that cannot be opened reads as disabled
openFailed_silent(events) == Returned(FALSE, events)

\* lines 209-212: fopen returned NULL
openFailed(events) ==
    Returned(FALSE, events
                    \o throwIOException("Cannot open /proc/sys/crypto/fips_enabled"))

\* mutant: an empty file is reported as one that cannot be opened
readFailed_asOpen(events) ==
    Returned(FALSE, events
                    \o throwIOException("Cannot open /proc/sys/crypto/fips_enabled"))

\* lines 215-218: fgetc returned EOF
readFailed(events) ==
    Returned(FALSE, events
                    \o throwIOException("Cannot read /proc/sys/crypto/fips_enabled"))

\* mutant: a query that finds no entry point marks one as resolved
staticsAfterQuery_resolves(g, in) ==
    IF g.getSystemFIPSEnabled = "NULL"
    THEN [g EXCEPT !.getSystemFIPSEnabled = "SECMOD"]
    ELSE g

\* lines 191-224 assign to locals only (fips_enabled, msg, msg_bytes, fe):
\* the static variables after a query are those before it
staticsAfterQuery(g, in) == g

\* mutant: the stream is closed only after the end-of-stream test
Java_java_security_SystemConfigurator_getSystemFIPSEnabled_closesLate(g, in) ==
    IF entryPointPresent(g)
    THEN LET fips_enabled == in.secmod IN
         Returned(nativeAnswer(fips_enabled),
                  dbgPrint(g, "getSystemFIPSEnabled: calling SECMOD_GetSystemFIPSEnabled",
                           in.dlv[1])
                  \o <<Ev("SECMOD_GetSystemFIPSEnabled", "call")>>
                  \o handle_msg(g, "getSystemFIPSEnabled: SECMOD_GetSystemFIPSEnabled returned",
                                LEN_RETURNED_FMT + HexLen(fips_enabled), in.dlv[2]))
    ELSE LET e1 == dbgPrint(g, "getSystemFIPSEnabled: reading /proc/sys/crypto/fips_enabled",
                            in.dlv[1])
                   \o <<Ev("fopen", in.fopen)>>
         IN
         IF in.fopen = "NULL"
         THEN openFailed(e1)
         ELSE LET fips_enabled == in.fgetc
                  e2 == e1 \o <<Ev("fgetc", "FILE")>>
              IN
              IF fips_enabled = EOF
              THEN readFailed(e2)
              ELSE Returned(fileAnswer(fips_enabled),
                            e2 \o <<Ev("fclose", "FILE")>>
                               \o handle_msg(g, "getSystemFIPSEnabled: read character is",
                                             LEN_READ_FMT, in.dlv[2]))

Java_java_security_SystemConfigurator_getSystemFIPSEnabled(g, in) ==
    IF entryPointPresent(g)
    THEN LET fips_enabled == in.secmod IN
         Returned(nativeAnswer(fips_enabled),
                  dbgPrint(g, "getSystemFIPSEnabled: calling SECMOD_GetSystemFIPSEnabled",
                           in.dlv[1])
                  \o <<Ev("SECMOD_GetSystemFIPSEnabled", "call")>>
                  \o handle_msg(g, "getSystemFIPSEnabled: SECMOD_GetSystemFIPSEnabled returned",
                                LEN_RETURNED_FMT + HexLen(fips_enabled), in.dlv[2]))
    ELSE LET e1 == dbgPrint(g, "getSystemFIPSEnabled: reading /proc/sys/crypto/fips_enabled",
                            in.dlv[1])
                   \o <<Ev("fopen", in.fopen)>>
         IN
         IF in.fopen = "NULL"
         THEN openFailed(e1)
         ELSE LET fips_enabled == in.fgetc
                  e2 == e1 \o <<Ev("fgetc", "FILE"), Ev("fclose", "FILE")>>
              IN
              IF fips_enabled = EOF
              THEN readFailed(e2)
              ELSE Returned(fileAnswer(fips_enabled),
                            e2 \o handle_msg(g, "getSystemFIPSEnabled: read character is",
                                             LEN_READ_FMT, in.dlv[2]))

\* the inputs a query can meet in the current state: answers of calls the
\* state rules out are held at one value
QueryInputsNow ==
    {in \in QueryInputs :
        /\ (getSystemFIPSEnabled = "NULL" => in.secmod = 0)
        /\ (in.fopen = "NULL" => in.fgetc = EOF)
        /\ (debugObj = "NULL" => in.dlv = NoFaultPlan)}

\* mutant: the first answer is kept and handed out again
QueryCached ==
    /\ HostMayCall
    /\ \E in \in QueryInputsNow :
         LET r == IF last = <<>>
                  THEN Java_java_security_SystemConfigurator_getSystemFIPSEnabled(Globals, in)
                  ELSE [ret |-> last[1].ret, ev |-> last[1].ev]
         IN
         /\ last' = <<[in |-> in, ret |-> r.ret, ev |-> r.ev]>>
         /\ prev' = last
         /\ LET g == staticsAfterQuery(Globals, in) IN
            /\ getSystemFIPSEnabled' = g.getSystemFIPSEnabled
            /\ debugPrintlnMethodID' = g.debugPrintlnMethodID
            /\ debugObj' = g.debugObj
            /\ nss_handle' = g.nss_handle
    /\ UNCHANGED <<SYSCONF_NSS, phase, onLoadRet, trace, thr, fips_enabled_of>>

Query ==
    /\ HostMayCall
    /\ \E in \in QueryInputsNow :
         LET r == Java_java_security_SystemConfigurator_getSystemFIPSEnabled(Globals, in) IN
         /\ last' = <<[in |-> in, ret |-> r.ret, ev |-> r.ev]>>
         /\ prev' = last
         /\ LET g == staticsAfterQuery(Globals, in) IN
            /\ getSystemFIPSEnabled' = g.getSystemFIPSEnabled
            /\ debugPrintlnMethodID' = g.debugPrintlnMethodID
            /\ debugObj' = g.debugObj
            /\ nss_handle' = g.nss_handle
    /\ UNCHANGED <<SYSCONF_NSS, phase, onLoadRet, trace, thr, fips_enabled_of>>

----------------------------------------------------------------------------
(* JNI_OnUnload *)

\* GetEnv in JNI_OnUnload asks the vm that answered JNI_OK in JNI_OnLoad for
\* the same version
UnloadGetEnvAnswers == {"JNI_OK"}

OnUnloadInputs(handle) ==
    [GetEnv : UnloadGetEnvAnswers,
     dlclose : DlcloseAnswers(handle),
     errLen : DetailLens,
     dlv : DeliveryPlans]

JNI_OnUnload(static, g, in) ==
    IF g.debugObj # "NULL"
    THEN IF in.GetEnv # "JNI_OK"
         THEN [ev |-> <<>>, done |-> TRUE]
         ELSE LET c == IF static THEN <<>> ELSE closeNSS(g, in) IN
              IF HasEv(c, "dlclose_ret", "SIGSEGV")
              THEN [ev |-> c, done |-> FALSE]
              ELSE [ev |-> c \o <<Ev("DeleteGlobalRef", g.debugObj)>>, done |-> TRUE]
    ELSE [ev |-> <<>>, done |-> TRUE]

OnUnloadInputsNow ==
    {in \in OnUnloadInputs(nss_handle) :
        /\ (debugObj = "NULL" \/ SYSCONF_NSS
              => in.dlclose = "nonzero" /\ in.errLen = MaxDetailLen)
        /\ (in.dlclose # "nonzero" => in.errLen = MaxDetailLen)
        /\ (in.dlclose # "nonzero" \/ debugObj = "NULL" \/ SYSCONF_NSS
              => in.dlv = NoFaultPlan)
        /\ in.dlv[2] = "ok"}

OnUnload ==
    /\ HostMayUnload
    /\ \E in \in OnUnloadInputsNow :
         LET r == JNI_OnUnload(SYSCONF_NSS, Globals, in) IN
         /\ trace' = trace \o <<Ev("JNI_OnUnload", "enter")>> \o r.ev
         /\ phase' = IF r.done THEN "Closed" ELSE "Crashed"
    /\ UNCHANGED <<SYSCONF_NSS, getSystemFIPSEnabled, debugPrintlnMethodID,
                   debugObj, nss_handle, onLoadRet, prev, last, thr, fips_enabled_of>>

----------------------------------------------------------------------------

Init ==
    /\ SYSCONF_NSS \in BOOLEAN
    /\ phase = "Uninitialized"
    /\ getSystemFIPSEnabled = "NULL"
    /\ debugPrintlnMethodID = "NULL"
    /\ debugObj = "NULL"
    /\ nss_handle = "NULL"
    /\ onLoadRet = "none"
    /\ trace = <<>>
    /\ prev = <<>>
    /\ last = <<>>
    /\ thr = [t \in Threads |-> Idle]
    /\ fips_enabled_of = [t \in Threads |-> 0]

Next == OnLoad \/ Query \/ OnUnload

Spec == Init /\ [][Next]_vars

----------------------------------------------------------------------------
(* The query statement by statement, run by several threads at once.  pc   *)
(* is the source line a thread is about to execute.                        *)

\* the answers one call can meet: those of the source the call does not
\* consult are held at one value, and both dbgPrint calls fare alike
ThreadInputsNow ==
    {in \in QueryInputs :
        /\ (getSystemFIPSEnabled = "NULL" => in.secmod = 0)
        /\ (getSystemFIPSEnabled # "NULL" => in.fopen = "NULL")
        /\ (in.fopen = "NULL" => in.fgetc = EOF)
        /\ (debugObj = "NULL" => in.dlv = NoFaultPlan)
        /\ in.dlv[1] = in.dlv[2]}

\* mutant: fips_enabled is declared static, one cell for every activation
frame_static(t) == "t1"

\* line 194: fips_enabled is automatic, each activation has its own
frame(t) == t

StaticsKept(t) ==
    LET g == staticsAfterQuery(Globals, thr[t].in) IN
    /\ getSystemFIPSEnabled' = g.getSystemFIPSEnabled
    /\ debugPrintlnMethodID' = g.debugPrintlnMethodID
    /\ debugObj' = g.debugObj
    /\ nss_handle' = g.nss_handle

Goto(t, line, events) ==
    thr' = [thr EXCEPT ![t].pc = line, ![t].ev = thr[t].ev \o events]

Return(t, r) ==
    thr' = [thr EXCEPT ![t].pc = "done", ![t].ev = r.ev, ![t].ret = r.ret]

\* the host calls the native method on thread t
HostCall(t) ==
    /\ HostMayCall
    /\ thr[t].pc = "idle"
    /\ \E in \in ThreadInputsNow :
         thr' = [thr EXCEPT ![t] = [pc |-> "198", in |-> in, ev |-> <<>>, ret |-> FALSE]]
    /\ UNCHANGED <<SYSCONF_NSS, phase, getSystemFIPSEnabled, debugPrintlnMethodID,
                   debugObj, nss_handle, onLoadRet, trace, prev, last, fips_enabled_of>>

\* lines 198-199 and 208: the test of the pointer and the first dbgPrint
Line198(t) ==
    /\ thr[t].pc = "198"
    /\ IF entryPointPresent(Globals)
       THEN Goto(t, "200",
                 dbgPrint(Globals, "getSystemFIPSEnabled: calling SECMOD_GetSystemFIPSEnabled",
                          thr[t].in.dlv[1]))
       ELSE Goto(t, "209",
                 dbgPrint(Globals, "getSystemFIPSEnabled: reading /proc/sys/crypto/fips_enabled",
                          thr[t].in.dlv[1]))
    /\ StaticsKept(t)
    /\ UNCHANGED <<SYSCONF_NSS, phase, onLoadRet, trace, prev, last, fips_enabled_of>>

\* line 200: the call of the entry point
Line200(t) ==
    /\ thr[t].pc = "200"
    /\ fips_enabled_of' = [fips_enabled_of EXCEPT ![frame(t)] = thr[t].in.secmod]
    /\ Goto(t, "201", <<Ev("SECMOD_GetSystemFIPSEnabled", "call")>>)
    /\ StaticsKept(t)
    /\ UNCHANGED <<SYSCONF_NSS, phase, onLoadRet, trace, prev, last>>

\* mutant: the query closes the library once it has its answer
Line201_closes(t) ==
    /\ thr[t].pc = "201"
    /\ LET fips_enabled == fips_enabled_of[frame(t)] IN
       Return(t, Returned(nativeAnswer(fips_enabled),
                  thr[t].ev
                  \o handle_msg(Globals, "getSystemFIPSEnabled: SECMOD_GetSystemFIPSEnabled returned",
                                LEN_RETURNED_FMT + HexLen(fips_enabled), thr[t].in.dlv[2])
                  \o <<Ev("dlclose", nss_handle)>>))
    /\ StaticsKept(t)
    /\ UNCHANGED <<SYSCONF_NSS, phase, onLoadRet, trace, prev, last, fips_enabled_of>>

\* lines 201-204: the diagnostic and the return of the native path
Line201(t) ==
    /\ thr[t].pc = "201"
    /\ LET fips_enabled == fips_enabled_of[frame(t)] IN
       Return(t, Returned(nativeAnswer(fips_enabled),
                  thr[t].ev
                  \o handle_msg(Globals, "getSystemFIPSEnabled: SECMOD_GetSystemFIPSEnabled returned",
                                LEN_RETURNED_FMT + HexLen(fips_enabled), thr[t].in.dlv[2])))
    /\ StaticsKept(t)
    /\ UNCHANGED <<SYSCONF_NSS, phase, onLoadRet, trace, prev, last, fips_enabled_of>>

\* lines 209-212: fopen
Line209(t) ==
    /\ thr[t].pc = "209"
    /\ IF thr[t].in.fopen = "NULL"
       THEN Return(t, openFailed(thr[t].ev \o <<Ev("fopen", "NULL")>>))
       ELSE Goto(t, "213", <<Ev("fopen", thr[t].in.fopen)>>)
    /\ StaticsKept(t)
    /\ UNCHANGED <<SYSCONF_NSS, phase, onLoadRet, trace, prev, last, fips_enabled_of>>

\* lines 213-214: fgetc and fclose
Line213(t) ==
    /\ thr[t].pc = "213"
    /\ fips_enabled_of' = [fips_enabled_of EXCEPT ![frame(t)] = thr[t].in.fgetc]
    /\ Goto(t, "215", <<Ev("fgetc", "FILE"), Ev("fclose", "FILE")>>)
    /\ StaticsKept(t)
    /\ UNCHANGED <<SYSCONF_NSS, phase, onLoadRet, trace, prev, last>>

\* lines 215-222: the end-of-stream test, the diagnostic and the return
Line215(t) ==
    /\ thr[t].pc = "215"
    /\ LET fips_enabled == fips_enabled_of[frame(t)] IN
       IF fips_enabled = EOF
       THEN Return(t, readFailed(thr[t].ev))
       ELSE Return(t, Returned(fileAnswer(fips_enabled),
                       thr[t].ev
                       \o handle_msg(Globals, "getSystemFIPSEnabled: read character is",
                                     LEN_READ_FMT, thr[t].in.dlv[2])))
    /\ StaticsKept(t)
    /\ UNCHANGED <<SYSCONF_NSS, phase, onLoadRet, trace, prev, last, fips_enabled_of>>

\* the native method returns to the host: the activation and its locals end
HostReturn(t) ==
    /\ thr[t].pc = "done"
    /\ last' = <<[in |-> thr[t].in, ret |-> thr[t].ret, ev |-> thr[t].ev]>>
    /\ thr' = [thr EXCEPT ![t] = Idle]
    /\ fips_enabled_of' = [fips_enabled_of EXCEPT ![frame(t)] = 0]
    /\ UNCHANGED <<SYSCONF_NSS, phase, getSystemFIPSEnabled, debugPrintlnMethodID,
                   debugObj, nss_handle, onLoadRet, trace, prev>>

NextMT ==
    \/ OnLoad
    \/ OnUnload
    \/ \E t \in Threads :
          \/ HostCall(t) \/ Line198(t) \/ Line200(t) \/ Line201(t)
          \/ Line209(t) \/ Line213(t) \/ Line215(t) \/ HostReturn(t)

SpecMT == Init /\ [][NextMT]_vars

----------------------------------------------------------------------------
(* handle_msg alone, applied to every message and every length snprintf    *)
(* can return                                                              *)

\* largest length tried
MaxMsgBytes == 260

MsgBytes == (0 - 2)..MaxMsgBytes

Messages == {"loadNSS: dlopen", "loadNSS: dlsym", "closeNSS: dlclose",
             "getSystemFIPSEnabled: SECMOD_GetSystemFIPSEnabled returned",
             "getSystemFIPSEnabled: read character is"}

InitMsg ==
    /\ SYSCONF_NSS = FALSE
    /\ phase = "handle_msg"
    /\ getSystemFIPSEnabled = "NULL"
    /\ debugObj \in {"NULL", "GLOBAL"}
    /\ debugPrintlnMethodID = IF debugObj = "NULL" THEN "NULL" ELSE "MID"
    /\ nss_handle = "NULL"
    /\ onLoadRet = "none"
    /\ trace = <<>>
    /\ prev = <<>>
    /\ last = <<>>
    /\ thr = [t \in Threads |-> Idle]
    /\ fips_enabled_of = [t \in Threads |-> 0]

HandleMsg ==
    /\ trace = <<>>
    /\ \E msg \in Messages, msg_bytes \in MsgBytes, delivery \in Deliveries :
         trace' = handle_msg(Globals, msg, msg_bytes, delivery)
    /\ UNCHANGED <<SYSCONF_NSS, phase, getSystemFIPSEnabled, debugPrintlnMethodID,
                   debugObj, nss_handle, onLoadRet, prev, last, thr, fips_enabled_of>>

NextMsg == HandleMsg

SpecMsg == InitMsg /\ [][NextMsg]_vars

----------------------------------------------------------------------------
(* Vocabulary of the properties *)

Range(s) == {s[i] : i \in 1..Len(s)}

\* the queries the state remembers
Calls == Range(prev) \cup Range(last)

Loaded == phase \in {"Initialized", "Closed", "Crashed"}

Unloaded == phase \in {"Closed", "Crashed"}

\* JNI_OnLoad opened the library itself
LibraryOpened == HasEv(trace, "dlopen", "HANDLE")

\* the loader could not open the library, or could not resolve the symbol
AcquisitionFailed == HasEv(trace, "dlopen", "NULL") \/ HasEv(trace, "dlsym", "NULL")

\* JNI_OnLoad resolved the entry point: linked at build time, or dlsym found it
EntryResolved == Loaded /\ (SYSCONF_NSS \/ HasEv(trace, "dlsym", "SECMOD"))

OPEN_MSG == "Cannot open /proc/sys/crypto/fips_enabled"
READ_MSG == "Cannot read /proc/sys/crypto/fips_enabled"

IOFailure(c) == HasEv(c.ev, "throw", OPEN_MSG) \/ HasEv(c.ev, "throw", READ_MSG)

\* what the source a query consulted says, from the answers it was given
Dictated(resolved, in) ==
    IF resolved THEN (IF in.secmod = 1 THEN "true" ELSE "false")
    ELSE IF in.fopen = "NULL" THEN "open-failure"
    ELSE IF in.fgetc = EOF THEN "read-failure"
    ELSE IF in.fgetc = CHAR_ONE THEN "true" ELSE "false"

\* what a query handed back as far as the source is concerned
Answer(c) ==
    IF HasEv(c.ev, "throw", OPEN_MSG) THEN "open-failure"
    ELSE IF HasEv(c.ev, "throw", READ_MSG) THEN "read-failure"
    ELSE IF c.ret THEN "true" ELSE "false"

----------------------------------------------------------------------------
(* C1: a query returns true exactly when the active source says enabled:   *)
(* the entry point, when present, returned 1, or, when it is absent, the   *)
(* first character read from the pseudo-file is '1'; every other int and   *)
(* every other character yields false.                                     *)
C1_TrueIffEnabled ==
    \A c \in Calls :
        c.ret = TRUE <=>
            IF getSystemFIPSEnabled # "NULL"
            THEN c.in.secmod = 1
            ELSE c.in.fopen = "FILE" /\ c.in.fgetc = CHAR_ONE

\* the entry point returned 49 (false) and then 1 (true)
C1_Witness ==
    /\ getSystemFIPSEnabled # "NULL"
    /\ Len(prev) = 1 /\ prev[1].in.secmod = CHAR_ONE /\ prev[1].ret = FALSE
    /\ Len(last) = 1 /\ last[1].in.secmod = 1 /\ last[1].ret = TRUE

(* C2: when the library cannot be opened or the symbol cannot be resolved, *)
(* JNI_OnLoad still succeeds with the entry point absent, every later      *)
(* query reads the pseudo-file and none tries to load the library again.   *)
C2_LoadFailureSelectsFallback ==
    AcquisitionFailed =>
        /\ Loaded /\ onLoadRet = "VERSION"
        /\ getSystemFIPSEnabled = "NULL"
        /\ Len(Ops(trace, "dlopen")) = 1
        /\ \A c \in Calls :
              /\ HasOp(c.ev, "fopen")
              /\ ~HasOp(c.ev, "SECMOD_GetSystemFIPSEnabled")
              /\ ~HasOp(c.ev, "dlopen") /\ ~HasOp(c.ev, "dlsym")

\* the symbol was not resolved and two queries have run since
C2_Witness ==
    /\ HasEv(trace, "dlsym", "NULL")
    /\ phase = "Initialized"
    /\ Len(prev) = 1 /\ Len(last) = 1
    /\ last[1].ret = TRUE

(* C3: once JNI_OnLoad has resolved the entry point, every query calls it, *)
(* never opens the pseudo-file and never raises an I/O failure.            *)
C3_ResolvedEntryPointIsExclusive ==
    EntryResolved =>
        \A c \in Calls :
            /\ HasOp(c.ev, "SECMOD_GetSystemFIPSEnabled")
            /\ ~HasOp(c.ev, "fopen") /\ ~HasOp(c.ev, "fgetc")
            /\ ~IOFailure(c)

\* the entry point is resolved and answered two queries while the pseudo-file
\* could not be opened
C3_Witness ==
    /\ EntryResolved
    /\ Len(prev) = 1 /\ prev[1].in.fopen = "NULL"
    /\ Len(last) = 1 /\ last[1].in.fopen = "NULL"
    /\ HasOp(last[1].ev, "SECMOD_GetSystemFIPSEnabled")

(* C4: if JNI_OnLoad opened the library itself, then once JNI_OnUnload has *)
(* run the handle has been closed, with or without a Debug object.         *)
C4_OpenedHandleIsReleased ==
    (Unloaded /\ LibraryOpened) => HasEv(trace, "dlclose", "HANDLE")

(* C5: when JNI_OnLoad did not open the library (dlopen failed, or NSS is  *)
(* linked at build time), JNI_OnUnload closes no handle and prints nothing *)
(* about closing, with or without a Debug object.                          *)
C5_NoReleaseWithoutOpen ==
    (Unloaded /\ ~LibraryOpened) =>
        /\ ~HasOp(trace, "dlclose")
        /\ ~HasEv(trace, "println", "closeNSS: dlclose")

(* C6: from JNI_OnLoad through JNI_OnUnload the handle that dlopen         *)
(* returned is closed at most once.                                        *)
C6_ReleasedAtMostOnce ==
    Len(SelectSeq(trace, LAMBDA e : e = Ev("dlclose", "HANDLE"))) <= 1

\* unloading has closed the opened handle
C6_Witness ==
    /\ phase = "Closed"
    /\ LibraryOpened
    /\ Len(SelectSeq(trace, LAMBDA e : e = Ev("dlclose", "HANDLE"))) = 1

C9_NeverCached ==
    (Len(prev) = 1 /\ Len(last) = 1) =>
        /\ Answer(prev[1]) = Dictated(EntryResolved, prev[1].in)
        /\ Answer(last[1]) = Dictated(EntryResolved, last[1].in)

\* two consecutive queries between which the source changed its answer
C9_Witness ==
    /\ Len(prev) = 1 /\ Len(last) = 1
    /\ Dictated(EntryResolved, prev[1].in) = "true"
    /\ Dictated(EntryResolved, last[1].in) = "open-failure"
    /\ Answer(last[1]) = "open-failure"

\* what the caller of a query gets: the jboolean and the exceptions raised
Outcome(r) == [ret |-> r.ret, thrown |-> Ops(r.ev, "throw")]

(* C10: the Debug object never affects the primary result: JNI_OnLoad      *)
(* selects the source from the library's availability alone, and every     *)
(* query hands back what it would hand back, given the same answers from   *)
(* the entry point and the pseudo-file, with no Debug object at all.       *)
C10_SinkNeverAffectsResult ==
    /\ phase = "Initialized" =>
          (getSystemFIPSEnabled # "NULL" <=> EntryResolved)
    /\ \A c \in Calls :
          Outcome(c) =
              Outcome(Java_java_security_SystemConfigurator_getSystemFIPSEnabled(
                          [Globals EXCEPT !.debugObj = "NULL"], c.in))

----------------------------------------------------------------------------
(* The two halves of the trace *)

UnloadAt == CHOOSE i \in 1..Len(trace) : trace[i].op = "JNI_OnUnload"

\* what JNI_OnLoad did
LoadEvents ==
    IF HasOp(trace, "JNI_OnUnload") THEN SubSeq(trace, 1, UnloadAt - 1) ELSE trace

\* what JNI_OnUnload did
UnloadEvents ==
    IF HasOp(trace, "JNI_OnUnload")
    THEN SubSeq(trace, UnloadAt + 1, Len(trace)) ELSE <<>>

OOM == Ev("throw", "OutOfMemoryError")

NOTICE == "systemconf: cannot render message"

\* what handle_msg hands to dbgPrint for the call h
Shown(h) == IF h.bytes > 0 /\ h.bytes < MSG_MAX_SIZE THEN h.arg ELSE NOTICE

(* C11: a dlclose failure in JNI_OnUnload is diagnosed and not propagated: *)
(* whenever JNI_OnUnload has tried to close the library it has completed   *)
(* and the state is Closed, and a failed close went through handle_msg.    *)
C11_CloseFailureNotPropagated ==
    HasOp(UnloadEvents, "dlclose") =>
        /\ phase = "Closed"
        /\ (~HasEv(UnloadEvents, "dlclose_ret", "0")
              => HasOp(UnloadEvents, "handle_msg"))

(* C13: when dlopen succeeds and dlsym fails, loadNSS returns JNI_FALSE,   *)
(* the entry point is NULL and nss_handle keeps the opened handle, which   *)
(* is the handle a later closeNSS closes.                                  *)
C13_PartialSuccessKeepsHandle ==
    HasEv(trace, "dlsym", "NULL") =>
        /\ HasEv(trace, "loadNSS", "JNI_FALSE")
        /\ getSystemFIPSEnabled = "NULL"
        /\ nss_handle = "HANDLE"
        /\ \A i \in 1..Len(trace) :
              trace[i].op = "dlclose" => trace[i].arg = "HANDLE"

\* the symbol was not found and unloading closed the handle that was kept
C13_Witness ==
    /\ HasEv(trace, "dlsym", "NULL")
    /\ phase = "Closed"
    /\ HasEv(UnloadEvents, "dlclose", "HANDLE")

(* C14: after JNI_OnLoad has returned, no step (query or JNI_OnUnload)     *)
(* changes getSystemFIPSEnabled: it keeps what JNI_OnLoad recorded.        *)
C14_EntryPointNeverReassigned ==
    [][phase # "Uninitialized" => getSystemFIPSEnabled' = getSystemFIPSEnabled]_vars

\* the pointer JNI_OnLoad resolved is still there after two queries and
\* JNI_OnUnload
C14_Witness ==
    /\ phase = "Closed"
    /\ HasEv(trace, "dlsym", "SECMOD") /\ getSystemFIPSEnabled = "SECMOD"
    /\ Len(prev) = 1 /\ Len(last) = 1

(* C16: every query that opened the pseudo-file has closed it by the time  *)
(* it returns, whatever it returns.                                        *)
C16_FileClosedOnEveryPath ==
    \A c \in Calls :
        /\ Len(SelectSeq(c.ev, LAMBDA e : e = Ev("fopen", "FILE")))
             = Len(Ops(c.ev, "fclose"))
        /\ \A i \in 1..Len(c.ev) :
              c.ev[i] = Ev("fopen", "FILE")
                  => \E j \in (i + 1)..Len(c.ev) : c.ev[j] = Ev("fclose", "FILE")

\* a read failure after a successful read: both queries opened the file
C16_Witness ==
    /\ Len(prev) = 1 /\ HasEv(prev[1].ev, "fopen", "FILE") /\ prev[1].ret = TRUE
    /\ Len(last) = 1 /\ HasEv(last[1].ev, "fopen", "FILE")
    /\ HasEv(last[1].ev, "throw", READ_MSG)

\* JNI_OnLoad went through loadNSS with a Debug object
AttemptWithSink == Loaded /\ ~SYSCONF_NSS /\ debugObj # "NULL"

C19_FailureBeforeAcquisition ==
    onLoadRet \in {"JNI_ERR", "JNI_EVERSION"} =>
        /\ ~HasOp(trace, "dlopen") /\ ~HasOp(trace, "dlsym")
        /\ nss_handle = "NULL"
        /\ getSystemFIPSEnabled = "NULL"

\* JNI_OnLoad failed on the Debug class where NSS is linked at build time
C19_Witness ==
    /\ onLoadRet = "JNI_ERR"
    /\ SYSCONF_NSS
    /\ debugObj = "LOCAL"
    /\ HasEv(trace, "printf", "Debug class not found")

(* C20: the global reference JNI_OnLoad took on the Debug object is        *)
(* deleted by JNI_OnUnload exactly once, as its last act, after the close  *)
(* and its diagnostic.                                                     *)
C20_SinkReleasedLast ==
    (Unloaded /\ HasOp(trace, "NewGlobalRef")) =>
        /\ Len(Ops(trace, "DeleteGlobalRef")) = 1
        /\ trace[Len(trace)].op = "DeleteGlobalRef"

\* the handle has been handed to dlclose, by JNI_OnUnload or by anyone else
ReleasedMT ==
    \/ HasEv(trace, "dlclose", "HANDLE")
    \/ \E t \in Threads : HasEv(thr[t].ev, "dlclose", "HANDLE")
    \/ \E c \in Calls : HasEv(c.ev, "dlclose", "HANDLE")

C15_QueryReadOnly ==
    [][\A t \in Threads :
          (thr[t].pc \notin {"idle", "done"} /\ thr'[t] # thr[t]) =>
              /\ getSystemFIPSEnabled' = getSystemFIPSEnabled
              /\ nss_handle' = nss_handle
              /\ debugObj' = debugObj
              /\ debugPrintlnMethodID' = debugPrintlnMethodID
              /\ thr'[t].pc = "done" =>
                    Returned(thr'[t].ret, thr'[t].ev) =
                        Java_java_security_SystemConfigurator_getSystemFIPSEnabled(
                            Globals, thr'[t].in)]_vars

\* one thread has its true answer while another, given a different answer
\* by the source, is between obtaining it and returning
C15_Witness ==
    \E t, u \in Threads :
        /\ t # u
        /\ thr[t].pc = "done" /\ thr[t].ret = TRUE
        /\ thr[u].pc \in {"201", "215"}
        /\ fips_enabled_of[u] # fips_enabled_of[t]

(* C18: handle_msg forwards the formatted message only when its length is  *)
(* above 0 and below 256; for every other length the fixed notice goes to  *)
(* the Debug object instead, so a truncated message is never printed.      *)
C18_MessageLengthBounded ==
    debugObj # "NULL" =>
        \A i \in 1..Len(trace) :
            trace[i].op = "handle_msg" =>
                /\ i < Len(trace)
                /\ trace[i + 1] \in
                      {Ev("println", IF trace[i].bytes > 0 /\ trace[i].bytes < 256
                                     THEN trace[i].arg ELSE NOTICE),
                       OOM}

\* a message of exactly 256 bytes was replaced by the notice
C18_Witness ==
    /\ Len(trace) = 2
    /\ trace[1].op = "handle_msg" /\ trace[1].bytes = 256
    /\ trace[2] = Ev("println", NOTICE)

====
